---- MODULE Spec2Model ----
(***************************************************************************)
(* The persisted event queue and batched upload pipeline of mobile-pulse:  *)
(* OfflineQueue (src/unnamed/part_002) and the parts of MobilePulseSDK     *)
(* (src/unnamed/part_003) that configure and trigger it.                   *)
(*                                                                         *)
(* Every `await` of the source is a suspension point, so each async method *)
(* is split into one action per stretch of synchronous code.  AsyncStorage *)
(* reads, AsyncStorage writes, the connectivity probe and fetch can each   *)
(* fail; the outcome is an input of the action that resumes after them.    *)
(*                                                                         *)
(* An event of the model is a record                                       *)
(*   [id, data, retryCount, maxRetries]                                    *)
(* `data` is the producer's payload; the model's producers hand in the     *)
(* payloads 1, 2, 3, ... so that a payload names one saveEvent call.  The  *)
(* code never looks at it.  JSON.stringify/JSON.parse of such a record     *)
(* (a string and three numbers) gives the record back, so the persisted    *)
(* item is held as the sequence itself; the absent item (null) is Null.    *)
(* A payload that JSON.stringify throws on (a circular structure, a        *)
(* BigInt) is the negative number -d.                                      *)
(***************************************************************************)
EXTENDS Integers, Sequences, FiniteSets, TLC

(* ------------------------------ bounds --------------------------------- *)
\* The code keeps the last 1000 events (part_002:77); the model scales it.
Capacity == 2
\* The code's default batchSize is 50 (part_002:54); the model scales it.
DefaultBatchSize == 1
\* The code's default maxRetries is 3 (part_002:55); the model scales it.
DefaultMaxRetries == 2
\* Largest batchSize an SDK configuration of the model asks for.
MaxBatchSize == 2
\* Largest maxRetries an SDK configuration of the model asks for.
MaxMaxRetries == 1
\* saveEvent calls made in one behaviour (payloads 1..MaxEvents).
MaxEvents == 3
\* saveEvent calls that can be suspended at the same time.
NumProducers == 2
\* uploadEvents executions that can be past the guard at the same time.
NumRuns == 2
\* MobilePulseSDK instances.
NumSdks == 1
\* initialize() calls of one instance suspended before configureOfflineQueue.
MaxStarting == 1
\* AsyncStorage operations that fail in one behaviour.
MaxFaults == 1
\* Longest snapshot that createBatches is handed on its own.
MaxSnapshot == 3
\* initialize() calls of one instance suspended at the same time, where the
\* overlap of such calls is looked at.
MaxOverlapping == 2
\* Iterations of the loop of createBatches that are followed; a loop over a
\* snapshot of MaxSnapshot events with a batchSize >= 1 ends before that.
MaxIterations == 4

\* The absent AsyncStorage item; a present item is <<list>>.
Null == <<>>
\* The `ev` of a saveEvent slot that is not in use.
NoEvent == [id |-> 0, data |-> 0, retryCount |-> 0, maxRetries |-> 0]

Producers == 1..NumProducers
Runs == 1..NumRuns
Sdks == 1..NumSdks
BatchSizes == 1..MaxBatchSize
RetryLimits == 0..MaxMaxRetries

VARIABLES
    storage,        \* AsyncStorage item 'events': Null or <<the list>>
    config,         \* OfflineQueue.config: [batchSize, maxRetries]
    isUploading,    \* OfflineQueue.isUploading
    uploadInterval, \* OfflineQueue.uploadInterval refers to an armed timeout
    orphanTimers,   \* pending debounce timeouts no field refers to any more
    intervals,      \* setInterval timers started by startAutoUpload
    nextData,       \* payload of the next saveEvent call
    savers,         \* suspended saveEvent calls
    runs,           \* uploadEvents executions
    sdks,           \* MobilePulseSDK instances
    faults,         \* AsyncStorage failures so far
    caught,         \* catch block that handled the latest AsyncStorage failure
    rejected,       \* exported calls whose promise has rejected
    landed,         \* history: payloads in the order their saveEvent wrote them
    dropped         \* history: since the guard was taken, a call returned at it

vars == <<storage, config, isUploading, uploadInterval, orphanTimers, intervals,
          nextData, savers, runs, sdks, faults, caught, rejected,
          landed, dropped>>

(* ------------------------------ helpers -------------------------------- *)
Min(a, b) == IF a < b THEN a ELSE b
Max(a, b) == IF a < b THEN b ELSE a

\* The persisted list as getStoredEvents sees it when the read succeeds.
Persisted == IF storage = Null THEN <<>> ELSE storage[1]

\* getStoredEvents: a failed read (or parse) is caught and gives [].
getStoredEvents(ok) == IF ok THEN Persisted ELSE <<>>

\* generateEventId: `event_${Date.now()}_${Math.random() suffix}`.  Date.now()
\* is the wall clock, which repeats a value within a millisecond and when it
\* is set back, and Math.random() can repeat a suffix, so nothing keeps the
\* string from being one that an earlier call produced.  The code compares
\* ids only for equality, so the model names the strings 1, 2, ...: draw 0
\* of the d-th call gives the string d, which no earlier call was given, and
\* draw c < d the string c, which an earlier call may have been given.
EventIds(d) == 0..(d - 1)
generateEventId(draw, d) == IF draw = 0 THEN d ELSE draw

\* JSON.stringify of a list of events (saveEvent line 81, uploadBatch line
\* 125) returns a string unless it throws on the payload of one of them.
stringifies(events) == \A i \in 1..Len(events) : events[i].data > 0

\* saveEvent lines 65-71: the record built before the first await.
NewEvent(cfg, draw, d) ==
    [id |-> generateEventId(draw, d), data |-> d, retryCount |-> 0,
     maxRetries |-> cfg.maxRetries]

\* A trim at the wrong end: the newest events go.
KeepFirst(events) ==
    IF Len(events) > Capacity THEN SubSeq(events, 1, Capacity) ELSE events

\* saveEvent lines 77-79: events.splice(0, events.length - 1000).
KeepLast(events) ==
    IF Len(events) > Capacity
    THEN SubSeq(events, Len(events) - Capacity + 1, Len(events))
    ELSE events

\* saveEvent lines 74-79: push, then keep the last 1000.
PushAndTrim(events, e) == KeepLast(Append(events, e))

\* createBatches: slices [i, i + batchSize) for i = 0, batchSize, ...
createBatches(events, batchSize) ==
    LET n == (Len(events) + batchSize - 1) \div batchSize
    IN  [b \in 1..n |->
            SubSeq(events, (b - 1) * batchSize + 1,
                   Min(b * batchSize, Len(events)))]

\* Array.prototype.slice(start, end) with 0-based bounds: a negative bound
\* counts from the end, bounds are clamped to the array, and from >= to gives
\* the empty array.
slice(events, start, end) ==
    LET n == Len(events)
        from == IF start < 0 THEN Max(n + start, 0) ELSE Min(start, n)
        to == IF end < 0 THEN Max(n + end, 0) ELSE Min(end, n)
    IN  SubSeq(events, from + 1, to)

\* Array.prototype.findIndex by id; 0 stands for -1.
findIndex(events, id) ==
    IF \E i \in 1..Len(events) : events[i].id = id
    THEN CHOOSE i \in 1..Len(events) :
            /\ events[i].id = id
            /\ \A j \in 1..(i - 1) : events[j].id # id
    ELSE 0

\* events.splice(i, 1)
RemoveAt(events, i) ==
    [j \in 1..(Len(events) - 1) |-> IF j < i THEN events[j] ELSE events[j + 1]]

\* An eviction that comes one failure late: > in place of >=.
BumpOrEvictLate(events, id) ==
    LET i == findIndex(events, id)
    IN  IF i = 0 THEN events
        ELSE LET bumped == [events EXCEPT ![i].retryCount = @ + 1]
             IN  IF bumped[i].retryCount > bumped[i].maxRetries
                 THEN RemoveAt(bumped, i)
                 ELSE bumped

\* A retry that re-queues: the failed event goes to the back of the list.
BumpToBack(events, id) ==
    LET i == findIndex(events, id)
    IN  IF i = 0 THEN events
        ELSE LET bumped == [events[i] EXCEPT !.retryCount = @ + 1]
             IN  IF bumped.retryCount >= bumped.maxRetries
                 THEN RemoveAt(events, i)
                 ELSE Append(RemoveAt(events, i), bumped)

\* An eviction against the limit now configured, not the event's own.
BumpOrEvictByConfig(events, id) ==
    LET i == findIndex(events, id)
    IN  IF i = 0 THEN events
        ELSE LET bumped == [events EXCEPT ![i].retryCount = @ + 1]
             IN  IF bumped[i].retryCount >= config.maxRetries
                 THEN RemoveAt(bumped, i)
                 ELSE bumped

\* handleUploadFailure lines 155-166: one iteration of the loop.
BumpOrEvict(events, id) ==
    LET i == findIndex(events, id)
    IN  IF i = 0 THEN events
        ELSE LET bumped == [events EXCEPT ![i].retryCount = @ + 1]
             IN  IF bumped[i].retryCount >= bumped[i].maxRetries
                 THEN RemoveAt(bumped, i)
                 ELSE bumped

\* handleUploadFailure lines 154-167: the loop over the failed batch.
RECURSIVE handleFailures(_, _)
handleFailures(events, batch) ==
    IF batch = <<>> THEN events
    ELSE handleFailures(BumpOrEvict(events, Head(batch).id), Tail(batch))

\* removeUploadedEvents lines 174-175: filter by the set of uploaded ids.
removeUploaded(events, uploadedBatch) ==
    LET uploadedIds == {uploadedBatch[i].id : i \in 1..Len(uploadedBatch)}
    IN  SelectSeq(events, LAMBDA e : e.id \notin uploadedIds)

IdleSaver == [pc |-> "idle", ev |-> NoEvent, events |-> <<>>, readOk |-> TRUE,
              owner |-> 0]
\* `i` is the loop variable of createBatches while the loop is followed
\* iteration by iteration.
IdleRun == [pc |-> "idle", batches |-> <<>>, k |-> 0, events |-> <<>>,
            failed |-> FALSE, readOk |-> TRUE, i |-> 0]
\* `stopped`: the methods of the instance that stop something have been
\* called.  `isMonitoring`: performanceMonitor.isMonitoring.
NewSdk == [isInitialized |-> FALSE, starting |-> 0, stopped |-> FALSE,
           isMonitoring |-> FALSE]

\* The state after the module is loaded: the singleton queue is constructed
\* with the defaults, nothing is stored, `failed` storage operations so far.
Start(failed) ==
    /\ storage = Null
    /\ config = [batchSize |-> DefaultBatchSize, maxRetries |-> DefaultMaxRetries]
    /\ isUploading = FALSE
    /\ uploadInterval = FALSE
    /\ orphanTimers = 0
    /\ intervals = 0
    /\ nextData = 1
    /\ savers = [p \in Producers |-> IdleSaver]
    /\ runs = [r \in Runs |-> IdleRun]
    /\ sdks = [s \in Sdks |-> NewSdk]
    /\ faults = failed
    /\ caught = "none"
    /\ rejected = {}
    /\ landed = <<>>
    /\ dropped = FALSE

Init == Start(0)

\* AsyncStorage never fails in the behaviour.
ReliableInit == Start(MaxFaults)

(* ------------------------------ AsyncStorage --------------------------- *)
\* The outcomes a storage operation can have now: success, or failure while
\* the behaviour has failures left.
Outcomes == IF faults < MaxFaults THEN {TRUE, FALSE} ELSE {TRUE}

Fault(ok) == faults' = IF ok THEN faults ELSE faults + 1

\* The error of a storage operation that threw reaches the catch block of
\* `site`, which logs it; nothing is rethrown.
Catch(site, threw) ==
    /\ caught' = IF threw THEN site ELSE caught
    /\ UNCHANGED rejected

\* The error of a storage operation that threw meets no catch block on its
\* way out of `call`, whose promise rejects.
Reject(call, threw) ==
    /\ rejected' = IF threw THEN rejected \cup {call} ELSE rejected
    /\ UNCHANGED caught

(* ------------------------- OfflineQueue.saveEvent ---------------------- *)
\* saveEvent lines 86-88: the catch block around the whole body.
saveEventCatch(threw) == Catch("saveEvent", threw)

FreeProducer == CHOOSE p \in Producers :
    /\ savers[p].pc = "idle"
    /\ \A q \in Producers : savers[q].pc = "idle" => p <= q

CanSave == nextData <= MaxEvents /\ \E p \in Producers : savers[p].pc = "idle"

\* saveEvent lines 65-73: build the record, call getStoredEvents, suspend.
\* `owner` is the MobilePulseSDK instance whose initialize awaits the call
\* (0: nobody's).
StartSave(cfg, draw, owner) ==
    /\ savers' = [savers EXCEPT ![FreeProducer] =
                    [pc |-> "read", ev |-> NewEvent(cfg, draw, nextData),
                     events |-> <<>>, readOk |-> TRUE, owner |-> owner]]
    /\ nextData' = nextData + 1

\* The exported saveEvent, called by a producer.
saveEvent ==
    /\ CanSave
    /\ \E draw \in EventIds(nextData) : StartSave(config, draw, 0)
    /\ UNCHANGED <<storage, config, isUploading, dropped, uploadInterval,
                   orphanTimers, intervals, runs, sdks, faults, caught,
                   rejected, landed>>

\* A saveEvent that hands the list to the storage without encoding it.
saveEventReadUnencoded(p) ==
    /\ savers[p].pc = "read"
    /\ \E ok \in Outcomes :
        /\ savers' = [savers EXCEPT ![p].pc = "write", ![p].readOk = ok,
              ![p].events = PushAndTrim(getStoredEvents(ok), savers[p].ev)]
        /\ Fault(ok)
        /\ Catch("getStoredEvents", ~ok)
    /\ UNCHANGED <<storage, config, isUploading, dropped, uploadInterval,
                   orphanTimers, intervals, nextData, runs, sdks, landed>>

\* The exported saveEvent, called with a payload that cannot be encoded.
saveEventUnencodable ==
    /\ CanSave
    /\ \E draw \in EventIds(nextData) :
          savers' = [savers EXCEPT ![FreeProducer] =
             [pc |-> "read", events |-> <<>>, readOk |-> TRUE, owner |-> 0,
              ev |-> [NewEvent(config, draw, nextData)
                         EXCEPT !.data = -nextData]]]
    /\ nextData' = nextData + 1
    /\ UNCHANGED <<storage, config, isUploading, dropped, uploadInterval,
                   orphanTimers, intervals, runs, sdks, faults, caught,
                   rejected, landed>>

\* saveEvent lines 73-88: the read resumes, push, trim, stringify, call
\* setItem and suspend; or stringify throws and the catch block logs it.
saveEventRead(p) ==
    /\ savers[p].pc = "read"
    /\ \E ok \in Outcomes :
        LET events == PushAndTrim(getStoredEvents(ok), savers[p].ev)
        IN  /\ IF stringifies(events)
               THEN /\ savers' = [savers EXCEPT ![p].pc = "write",
                                     ![p].readOk = ok, ![p].events = events]
                    /\ Catch("getStoredEvents", ~ok)
               ELSE /\ savers' = [savers EXCEPT ![p] = IdleSaver]
                    /\ saveEventCatch(TRUE)
            /\ Fault(ok)
    /\ UNCHANGED <<storage, config, isUploading, dropped, uploadInterval,
                   orphanTimers, intervals, nextData, runs, sdks, landed>>

\* tryUpload: clear the timeout the field refers to, arm a new one.
tryUpload == uploadInterval' = TRUE

\* saveEvent lines 81-88: the write lands and tryUpload runs, or the write
\* fails and the catch block logs it.
saveEventWrite(p) ==
    /\ savers[p].pc = "write"
    /\ \E ok \in Outcomes :
        /\ IF ok
           THEN /\ storage' = <<savers[p].events>>
                /\ landed' = Append(landed, savers[p].ev.data)
                /\ tryUpload
           ELSE UNCHANGED <<storage, landed, uploadInterval>>
        /\ Fault(ok)
        /\ saveEventCatch(~ok)
    /\ savers' = [savers EXCEPT ![p] = IdleSaver]
    /\ UNCHANGED <<config, isUploading, dropped, orphanTimers, intervals,
                   nextData, runs, sdks>>

(* ------------------------ OfflineQueue.uploadEvents -------------------- *)
\* An uploadEvents with try/finally only: the error leaves the call.
uploadEventsRethrow(threw) == Reject("uploadEvents", threw)

\* uploadEvents lines 114-116: the catch block around the whole run; what
\* handleUploadFailure throws leaves uploadBatch through its catch block and
\* ends here.
uploadEventsCatch(threw) == Catch("uploadEvents", threw)

FreeRun == CHOOSE r \in Runs :
    /\ runs[r].pc = "idle"
    /\ \A q \in Runs : runs[q].pc = "idle" => r <= q

\* A trigger can be modelled when the guard is held (the call returns at once)
\* or a run slot is free.
CanTrigger == isUploading \/ \E r \in Runs : runs[r].pc = "idle"

\* uploadEvents lines 92-97: the guard, then the first read is requested.
StartRun ==
    IF isUploading
    THEN /\ dropped' = TRUE
         /\ UNCHANGED <<isUploading, runs>>
    ELSE /\ isUploading' = TRUE
         /\ dropped' = FALSE
         /\ runs' = [runs EXCEPT ![FreeRun] = [IdleRun EXCEPT !.pc = "read"]]

\* The exported uploadEvents / MobilePulseSDK.uploadPendingEvents.
uploadEvents ==
    /\ CanTrigger
    /\ StartRun
    /\ UNCHANGED <<storage, config, uploadInterval, orphanTimers, intervals,
                   nextData, savers, sdks, faults, caught, rejected, landed>>

\* tryUpload lines 220-222: the debounce timeout fires.
debounceFires ==
    /\ CanTrigger
    /\ \/ /\ uploadInterval
          /\ uploadInterval' = FALSE
          /\ UNCHANGED orphanTimers
       \/ /\ orphanTimers > 0
          /\ orphanTimers' = orphanTimers - 1
          /\ UNCHANGED uploadInterval
    /\ StartRun
    /\ UNCHANGED <<storage, config, intervals, nextData, savers, sdks, faults,
                   caught, rejected, landed>>

\* A periodic tick that stands back while a debounce timeout is pending.
intervalFiresUnlessDebouncing ==
    /\ ~uploadInterval
    /\ CanTrigger
    /\ intervals > 0
    /\ StartRun
    /\ UNCHANGED <<storage, config, uploadInterval, orphanTimers, intervals,
                   nextData, savers, sdks, faults, caught, rejected, landed>>

\* startAutoUpload lines 226-228: an interval timer fires.
intervalFires ==
    /\ CanTrigger
    /\ intervals > 0
    /\ StartRun
    /\ UNCHANGED <<storage, config, uploadInterval, orphanTimers, intervals,
                   nextData, savers, sdks, faults, caught, rejected, landed>>

\* uploadBatch lines 122-147: the body of the request is encoded and fetch is
\* called; if JSON.stringify throws, the catch block starts
\* handleUploadFailure for the batch.
uploadBatch(batch) == IF stringifies(batch) THEN "fetch" ELSE "failureRead"

\* An uploadEvents without the finally block: the run ends and the flag
\* stays set.
FinishHoldingGuard(r) ==
    /\ UNCHANGED isUploading
    /\ dropped' = FALSE
    /\ runs' = [runs EXCEPT ![r] = IdleRun]

\* uploadEvents lines 116-118: finally.
Finish(r) ==
    /\ isUploading' = FALSE
    /\ dropped' = FALSE
    /\ runs' = [runs EXCEPT ![r] = IdleRun]

\* A run that does not look at the length of the snapshot: it goes on to the
\* connectivity probe with whatever it read.
uploadReadProbes(r) ==
    /\ runs[r].pc = "read"
    /\ \E ok \in Outcomes :
        /\ runs' = [runs EXCEPT ![r].pc = "probe",
                                 ![r].events = getStoredEvents(ok)]
        /\ UNCHANGED <<isUploading, dropped>>
        /\ Fault(ok)
        /\ Catch("getStoredEvents", ~ok)
    /\ UNCHANGED <<storage, config, uploadInterval, orphanTimers, intervals,
                   nextData, savers, sdks, landed>>

\* uploadEvents lines 97-100: the snapshot arrives; empty ends the run.
uploadRead(r) ==
    /\ runs[r].pc = "read"
    /\ \E ok \in Outcomes :
        /\ IF getStoredEvents(ok) = <<>>
           THEN Finish(r)
           ELSE /\ runs' = [runs EXCEPT ![r].pc = "probe",
                                        ![r].events = getStoredEvents(ok)]
                /\ UNCHANGED <<isUploading, dropped>>
        /\ Fault(ok)
        /\ Catch("getStoredEvents", ~ok)
    /\ UNCHANGED <<storage, config, uploadInterval, orphanTimers, intervals,
                   nextData, savers, sdks, landed>>

\* A run that counts being offline as a failed attempt of the whole
\* snapshot: it goes to handleUploadFailure with all events as one batch.
uploadProbeCountsOffline(r) ==
    /\ runs[r].pc = "probe"
    /\ \E online \in BOOLEAN :
        IF online
        THEN runs' = [runs EXCEPT ![r].pc = "fetch", ![r].k = 1,
                   ![r].batches = createBatches(runs[r].events, config.batchSize),
                   ![r].events = <<>>]
        ELSE runs' = [runs EXCEPT ![r].pc = "failureRead", ![r].k = 1,
                   ![r].batches = <<runs[r].events>>, ![r].events = <<>>]
    /\ UNCHANGED <<storage, config, isUploading, dropped, uploadInterval,
                   orphanTimers, intervals, nextData, savers, sdks, faults,
                   caught, rejected, landed>>

\* uploadEvents lines 100-110 and uploadBatch line 123: the probe answers;
\* online, the batches are cut and the request for the first one is sent.
uploadProbe(r) ==
    /\ runs[r].pc = "probe"
    /\ \E online \in BOOLEAN :
        IF online
        THEN LET batches == createBatches(runs[r].events, config.batchSize)
             IN  /\ runs' = [runs EXCEPT ![r].pc = uploadBatch(batches[1]),
                                ![r].k = 1, ![r].batches = batches,
                                ![r].events = <<>>]
                 /\ UNCHANGED <<isUploading, dropped>>
        ELSE Finish(r)
    /\ UNCHANGED <<storage, config, uploadInterval, orphanTimers, intervals,
                   nextData, savers, sdks, faults, caught, rejected, landed>>

\* uploadEvents lines 100-107 and createBatches lines 184-185: the probe
\* answers; online, createBatches is entered with an empty result and i = 0.
createBatchesEnter(r) ==
    /\ runs[r].pc = "probe"
    /\ \E online \in BOOLEAN :
        IF online
        THEN /\ runs' = [runs EXCEPT ![r].pc = "batching", ![r].i = 0,
                                     ![r].batches = <<>>]
             /\ UNCHANGED <<isUploading, dropped>>
        ELSE Finish(r)
    /\ UNCHANGED <<storage, config, uploadInterval, orphanTimers, intervals,
                   nextData, savers, sdks, faults, caught, rejected, landed>>

\* A loop whose slices are one event too long.
createBatchesLoopInclusive(r) ==
    /\ runs[r].pc = "batching"
    /\ IF runs[r].i < Len(runs[r].events)
       THEN /\ Len(runs[r].batches) < MaxIterations
            /\ runs' = [runs EXCEPT
                  ![r].batches = Append(@, slice(runs[r].events, runs[r].i,
                                      runs[r].i + config.batchSize + 1)),
                  ![r].i = @ + config.batchSize]
            /\ UNCHANGED <<isUploading, dropped>>
       ELSE IF runs[r].batches = <<>>
            THEN Finish(r)
            ELSE /\ runs' = [runs EXCEPT
                       ![r].pc = uploadBatch(runs[r].batches[1]),
                       ![r].k = 1, ![r].i = 0, ![r].events = <<>>]
                 /\ UNCHANGED <<isUploading, dropped>>
    /\ UNCHANGED <<storage, config, uploadInterval, orphanTimers, intervals,
                   nextData, savers, sdks, faults, caught, rejected, landed>>

\* createBatches lines 185-188 and uploadEvents lines 109-110: one pass of
\* `for (let i = 0; i < events.length; i += batchSize)`, which pushes
\* events.slice(i, i + batchSize); when the condition fails the batches are
\* returned and the request for the first one is sent.  The loop is
\* synchronous: config.batchSize cannot change between its iterations.
createBatchesLoop(r) ==
    /\ runs[r].pc = "batching"
    /\ IF runs[r].i < Len(runs[r].events)
       THEN /\ Len(runs[r].batches) < MaxIterations
            /\ runs' = [runs EXCEPT
                  ![r].batches = Append(@, slice(runs[r].events, runs[r].i,
                                      runs[r].i + config.batchSize)),
                  ![r].i = @ + config.batchSize]
            /\ UNCHANGED <<isUploading, dropped>>
       ELSE IF runs[r].batches = <<>>
            THEN Finish(r)
            ELSE /\ runs' = [runs EXCEPT
                       ![r].pc = uploadBatch(runs[r].batches[1]),
                       ![r].k = 1, ![r].i = 0, ![r].events = <<>>]
                 /\ UNCHANGED <<isUploading, dropped>>
    /\ UNCHANGED <<storage, config, uploadInterval, orphanTimers, intervals,
                   nextData, savers, sdks, faults, caught, rejected, landed>>

Batch(r) == runs[r].batches[runs[r].k]

\* A loop that does not await the store update: after a 2xx response the
\* request for the next batch goes out at once.
uploadResponseUnawaited(r) ==
    /\ runs[r].pc = "fetch"
    /\ \E ok \in BOOLEAN :
        IF ok
        THEN runs' = IF runs[r].k < Len(runs[r].batches)
                     THEN [runs EXCEPT ![r].k = @ + 1]
                     ELSE [runs EXCEPT ![r].pc = "removeRead"]
        ELSE runs' = [runs EXCEPT ![r].pc = "failureRead", ![r].failed = TRUE]
    /\ UNCHANGED <<storage, config, isUploading, dropped, uploadInterval,
                   orphanTimers, intervals, nextData, savers, sdks, faults,
                   caught, rejected, landed>>

\* uploadBatch lines 123-147: the request settles; 2xx goes on to
\* removeUploadedEvents, anything else to handleUploadFailure, and either
\* one first asks for the stored list.
uploadResponse(r) ==
    /\ runs[r].pc = "fetch"
    /\ \E ok \in BOOLEAN :
        IF ok
        THEN runs' = [runs EXCEPT ![r].pc = "removeRead"]
        ELSE runs' = [runs EXCEPT ![r].pc = "failureRead", ![r].failed = TRUE]
    /\ UNCHANGED <<storage, config, isUploading, dropped, uploadInterval,
                   orphanTimers, intervals, nextData, savers, sdks, faults,
                   caught, rejected, landed>>

\* uploadEvents lines 109-118: on to the next batch (its request is sent at
\* once) or, after the last one, to finally.
NextBatch(r) ==
    IF runs[r].k < Len(runs[r].batches)
    THEN /\ runs' = [runs EXCEPT
                        ![r].pc = uploadBatch(runs[r].batches[runs[r].k + 1]),
                        ![r].k = @ + 1, ![r].events = <<>>]
         /\ UNCHANGED <<isUploading, dropped>>
    ELSE Finish(r)

\* removeUploadedEvents lines 173-177: the list arrives, filter, call setItem.
removeUploadedRead(r) ==
    /\ runs[r].pc = "removeRead"
    /\ \E ok \in Outcomes :
        /\ runs' = [runs EXCEPT ![r].pc = "removeWrite", ![r].readOk = ok,
                      ![r].events = removeUploaded(getStoredEvents(ok), Batch(r))]
        /\ Fault(ok)
        /\ Catch("getStoredEvents", ~ok)
    /\ UNCHANGED <<storage, config, isUploading, dropped, uploadInterval,
                   orphanTimers, intervals, nextData, savers, sdks, landed>>

\* removeUploadedEvents line 177 and uploadBatch lines 143-147: the write
\* lands, or it fails inside the try block and handleUploadFailure starts.
removeUploadedWrite(r) ==
    /\ runs[r].pc = "removeWrite"
    /\ \E ok \in Outcomes :
        /\ IF ok
           THEN /\ storage' = <<runs[r].events>>
                /\ NextBatch(r)
           ELSE /\ runs' = [runs EXCEPT ![r].pc = "failureRead", ![r].events = <<>>]
                /\ UNCHANGED <<storage, isUploading, dropped>>
        /\ Fault(ok)
        /\ Catch("uploadBatch", ~ok)
    /\ UNCHANGED <<config, uploadInterval, orphanTimers, intervals, nextData,
                   savers, sdks, landed>>

\* handleUploadFailure lines 152-169: the list arrives, the loop runs, setItem
\* is called.
handleUploadFailureRead(r) ==
    /\ runs[r].pc = "failureRead"
    /\ \E ok \in Outcomes :
        /\ runs' = [runs EXCEPT ![r].pc = "failureWrite", ![r].readOk = ok,
                      ![r].events = handleFailures(getStoredEvents(ok), Batch(r))]
        /\ Fault(ok)
        /\ Catch("getStoredEvents", ~ok)
    /\ UNCHANGED <<storage, config, isUploading, dropped, uploadInterval,
                   orphanTimers, intervals, nextData, savers, sdks, landed>>

\* handleUploadFailure line 169: the write lands and the loop of uploadEvents
\* goes on, or it fails and the error leaves uploadBatch for the catch and
\* finally of uploadEvents.
handleUploadFailureWrite(r) ==
    /\ runs[r].pc = "failureWrite"
    /\ \E ok \in Outcomes :
        /\ IF ok
           THEN /\ storage' = <<runs[r].events>>
                /\ NextBatch(r)
           ELSE /\ Finish(r)
                /\ UNCHANGED storage
        /\ Fault(ok)
        /\ uploadEventsCatch(~ok)
    /\ UNCHANGED <<config, uploadInterval, orphanTimers, intervals, nextData,
                   savers, sdks, landed>>

(* ------------------------- OfflineQueue.clearQueue --------------------- *)
\* clearQueue: AsyncStorage.removeItem('events').
clearQueue ==
    /\ storage # Null
    /\ \E ok \in Outcomes :
        /\ storage' = IF ok THEN Null ELSE storage
        /\ Fault(ok)
        /\ Reject("clearQueue", ~ok)
    /\ UNCHANGED <<config, isUploading, dropped, uploadInterval, orphanTimers,
                   intervals, nextData, savers, runs, sdks, landed>>

(* ------------------------------ MobilePulseSDK ------------------------- *)
\* configureOfflineQueue: Object.assign(offlineQueue, new OfflineQueue(cfg))
\* copies the own properties of a fresh instance: config, isUploading = false
\* and, in a build that emits the declared field `uploadInterval` as an own
\* property, uploadInterval = undefined (the timeout it referred to stays
\* armed).  Which build it is, is a choice of the step.
configureOfflineQueue(cfg) ==
    /\ config' = cfg
    /\ isUploading' = FALSE
    /\ dropped' = FALSE
    /\ \E definesFields \in BOOLEAN :
        IF definesFields
        THEN /\ uploadInterval' = FALSE
             /\ orphanTimers' = orphanTimers + (IF uploadInterval THEN 1 ELSE 0)
        ELSE UNCHANGED <<uploadInterval, orphanTimers>>

\* initialize lines 41-51: the guard, then deviceSessionManager.initialize(),
\* which saves the session through the exported saveEvent
\* (DeviceSessionInfo.ts:149) and is awaited.
initialize(s) ==
    /\ ~sdks[s].isInitialized
    /\ sdks[s].starting < MaxStarting
    /\ CanSave
    /\ \E draw \in EventIds(nextData) : StartSave(config, draw, s)
    /\ sdks' = [sdks EXCEPT ![s].starting = @ + 1]
    /\ UNCHANGED <<storage, config, isUploading, dropped, uploadInterval,
                   orphanTimers, intervals, runs, faults, caught, rejected,
                   landed>>

\* initialize lines 41-63 of an instance constructed with
\* enableDeviceSessionTracking: false: the guard, then the first await is
\* that of performanceMonitor.startMonitoring(), whose first call records
\* the startup time through the exported saveEvent, which nobody awaits
\* (PerformanceMonitor.ts:18-31, 53-59, 73-80), and arms the interval of the
\* monitor, whose ticks are saveEvent calls of a producer.
initializeUntracked(s) ==
    /\ ~sdks[s].isInitialized
    /\ sdks[s].starting < MaxOverlapping
    /\ IF sdks[s].isMonitoring
       THEN UNCHANGED <<savers, nextData>>
       ELSE /\ CanSave
            /\ \E draw \in EventIds(nextData) : StartSave(config, draw, 0)
    /\ sdks' = [sdks EXCEPT ![s].starting = @ + 1, ![s].isMonitoring = TRUE]
    /\ UNCHANGED <<storage, config, isUploading, dropped, uploadInterval,
                   orphanTimers, intervals, runs, faults, caught, rejected,
                   landed>>

\* The saveEvent calls that an initialize of s still awaits.
SessionSaves(s) == {p \in Producers : savers[p].pc # "idle" /\ savers[p].owner = s}

\* initialize lines 52-91: the session is saved; configureOfflineQueue,
\* startAutoUpload, the flag, and trackEvent('sdk_initialized'), which calls
\* saveEvent.
initializeResume(s) ==
    /\ sdks[s].starting > Cardinality(SessionSaves(s))
    /\ CanSave
    /\ \E bs \in BatchSizes, mr \in RetryLimits :
          /\ configureOfflineQueue([batchSize |-> bs, maxRetries |-> mr])
          /\ \E draw \in EventIds(nextData) :
                StartSave([batchSize |-> bs, maxRetries |-> mr], draw, 0)
    /\ intervals' = intervals + 1
    /\ sdks' = [sdks EXCEPT ![s].starting = @ - 1, ![s].isInitialized = TRUE]
    /\ UNCHANGED <<storage, runs, faults, caught, rejected, landed>>

\* stopPerformanceMonitoring and stopNetworkTracking, the methods of the SDK
\* that stop something: performanceMonitor.stopMonitoring() clears the
\* interval of the monitor and networkTracker.stopTracking() puts the
\* original fetch back.  Neither reaches the queue, which has no method that
\* clears its timeout or its interval.
stopMonitoring(s) ==
    /\ ~sdks[s].stopped
    /\ sdks' = [sdks EXCEPT ![s].stopped = TRUE]
    /\ UNCHANGED <<storage, config, isUploading, dropped, uploadInterval,
                   orphanTimers, intervals, nextData, savers, runs, faults,
                   caught, rejected, landed>>

\* The queue used through the functions it exports.
QueueNext ==
    \/ saveEvent
    \/ \E p \in Producers : saveEventRead(p)
    \/ \E p \in Producers : saveEventWrite(p)
    \/ uploadEvents
    \/ debounceFires
    \/ \E r \in Runs : uploadRead(r)
    \/ \E r \in Runs : uploadProbe(r)
    \/ \E r \in Runs : uploadResponse(r)
    \/ \E r \in Runs : removeUploadedRead(r)
    \/ \E r \in Runs : removeUploadedWrite(r)
    \/ \E r \in Runs : handleUploadFailureRead(r)
    \/ \E r \in Runs : handleUploadFailureWrite(r)
    \/ clearQueue

Spec == Init /\ [][QueueNext]_vars

\* The initialization of the SDK next to the functions the queue exports.
SdkNext ==
    \/ \E s \in Sdks : initialize(s)
    \/ \E s \in Sdks : initializeResume(s)
    \/ \E p \in Producers : saveEventRead(p)
    \/ \E p \in Producers : saveEventWrite(p)
    \/ uploadEvents
    \/ debounceFires
    \/ intervalFires
    \/ \E r \in Runs : uploadRead(r)
    \/ \E r \in Runs : uploadProbe(r)
    \/ \E r \in Runs : uploadResponse(r)
    \/ \E r \in Runs : removeUploadedRead(r)
    \/ \E r \in Runs : removeUploadedWrite(r)
    \/ \E r \in Runs : handleUploadFailureRead(r)
    \/ \E r \in Runs : handleUploadFailureWrite(r)
    \/ clearQueue

SpecSdk == Init /\ [][SdkNext]_vars

\* The same on a storage that works.
SpecSdkReliable == ReliableInit /\ [][SdkNext]_vars

\* Producers alone: overlapping saveEvent calls on a storage that works.
AppendNext ==
    \/ saveEvent
    \/ \E p \in Producers : saveEventRead(p)
    \/ \E p \in Producers : saveEventWrite(p)

SpecAppend == ReliableInit /\ [][AppendNext]_vars

\* saveEvent called while no other saveEvent is suspended.
saveEventAlone ==
    /\ \A p \in Producers : savers[p].pc = "idle"
    /\ saveEvent

\* One producer at a time next to the upload runs, on a storage that works.
OverlapNext ==
    \/ saveEventAlone
    \/ \E p \in Producers : saveEventRead(p)
    \/ \E p \in Producers : saveEventWrite(p)
    \/ uploadEvents
    \/ \E r \in Runs : uploadRead(r)
    \/ \E r \in Runs : uploadProbe(r)
    \/ \E r \in Runs : uploadResponse(r)
    \/ \E r \in Runs : removeUploadedRead(r)
    \/ \E r \in Runs : removeUploadedWrite(r)
    \/ \E r \in Runs : handleUploadFailureRead(r)
    \/ \E r \in Runs : handleUploadFailureWrite(r)

SpecOverlap == ReliableInit /\ [][OverlapNext]_vars

\* The steps of one upload run.
RunStep(r) ==
    \/ uploadRead(r)
    \/ uploadProbe(r)
    \/ uploadResponse(r)
    \/ removeUploadedRead(r)
    \/ removeUploadedWrite(r)
    \/ handleUploadFailureRead(r)
    \/ handleUploadFailureWrite(r)

\* The connectivity probe of a run answers "connected".
ProbeOnline(r) == uploadProbe(r) /\ runs'[r].pc = "fetch"

\* The SDK initializes and from then on only the interval timer of
\* startAutoUpload calls uploadEvents: no debounce timeout fires and nobody
\* calls uploadEvents or clearQueue.
PeriodicNext ==
    \/ \E s \in Sdks : initialize(s)
    \/ \E s \in Sdks : initializeResume(s)
    \/ \E p \in Producers : saveEventRead(p)
    \/ \E p \in Producers : saveEventWrite(p)
    \/ intervalFires
    \/ \E r \in Runs : RunStep(r)

\* setInterval keeps ticking, every await of a run settles (storage, probe
\* and fetch answer), and the device is online again and again.
SpecPeriodic ==
    /\ ReliableInit
    /\ [][PeriodicNext]_vars
    /\ WF_vars(intervalFires)
    /\ \A r \in Runs : WF_vars(RunStep(r)) /\ SF_vars(ProbeOnline(r))

\* Producers that also hand in payloads that cannot be encoded, next to the
\* upload runs, on a storage that works.
EncodeNext ==
    \/ saveEvent
    \/ saveEventUnencodable
    \/ \E p \in Producers : saveEventRead(p)
    \/ \E p \in Producers : saveEventWrite(p)
    \/ uploadEvents
    \/ \E r \in Runs : RunStep(r)

SpecEncode == ReliableInit /\ [][EncodeNext]_vars

\* The application stops an SDK that it has initialized.
stopInitialized(s) ==
    /\ sdks[s].isInitialized
    /\ stopMonitoring(s)

\* The SDK is initialized and then stopped; only the timers of the queue
\* call uploadEvents.
StopNext ==
    \/ \E s \in Sdks : initialize(s)
    \/ \E s \in Sdks : initializeResume(s)
    \/ \E s \in Sdks : stopInitialized(s)
    \/ \E p \in Producers : saveEventRead(p)
    \/ \E p \in Producers : saveEventWrite(p)
    \/ debounceFires
    \/ intervalFires
    \/ \E r \in Runs : RunStep(r)

SpecStop == ReliableInit /\ [][StopNext]_vars

\* A stored list of n events with ids of their own, none of them attempted.
Snapshot(n) ==
    [d \in 1..n |-> [id |-> d, data |-> d, retryCount |-> 0,
                     maxRetries |-> DefaultMaxRetries]]

\* The batchSize values handed to createBatches on its own: the constructor
\* takes whatever number the configuration holds.
BatchSizeInputs == (0 - 1)..MaxSnapshot

\* createBatches on its own: the store holds a list, the queue was
\* constructed with a batchSize, the storage works.
BatchInit ==
    \E n \in 0..MaxSnapshot, bs \in BatchSizeInputs :
        /\ storage = <<Snapshot(n)>>
        /\ config = [batchSize |-> bs, maxRetries |-> DefaultMaxRetries]
        /\ isUploading = FALSE
        /\ uploadInterval = FALSE
        /\ orphanTimers = 0
        /\ intervals = 0
        /\ nextData = n + 1
        /\ savers = [p \in Producers |-> IdleSaver]
        /\ runs = [r \in Runs |-> IdleRun]
        /\ sdks = [s \in Sdks |-> NewSdk]
        /\ faults = MaxFaults
        /\ caught = "none"
        /\ rejected = {}
        /\ landed = [d \in 1..n |-> d]
        /\ dropped = FALSE

\* The steps of a run whose createBatches is followed iteration by iteration.
BatchRunStep(r) ==
    \/ uploadRead(r)
    \/ createBatchesEnter(r)
    \/ createBatchesLoop(r)
    \/ uploadResponse(r)
    \/ removeUploadedRead(r)
    \/ removeUploadedWrite(r)
    \/ handleUploadFailureRead(r)
    \/ handleUploadFailureWrite(r)

BatchNext ==
    \/ uploadEvents
    \/ \E r \in Runs : BatchRunStep(r)

SpecBatch == BatchInit /\ [][BatchNext]_vars

\* The same, where every await of a run settles.
SpecBatchFair == SpecBatch /\ \A r \in Runs : WF_vars(BatchRunStep(r))

\* initialize is called on an instance while earlier calls of it are still
\* suspended, up to the moment the first timer of the queue fires.
InitNext ==
    \/ \E s \in Sdks : initializeUntracked(s)
    \/ \E s \in Sdks : initializeResume(s)
    \/ \E p \in Producers : saveEventRead(p)
    \/ \E p \in Producers : saveEventWrite(p)

SpecInit == ReliableInit /\ [][InitNext]_vars

(* ------------------------------ properties ----------------------------- *)
DataOf(events) == {events[i].data : i \in 1..Len(events)}
IdsOf(events) == {events[i].id : i \in 1..Len(events)}

\* The steps in which a storage write of an operation settles, and those in
\* which it lands (a failed operation is counted in faults).
SaveSettles(p) == savers[p].pc = "write" /\ savers'[p].pc = "idle"
SaveLands(p) == SaveSettles(p) /\ faults' = faults
RemoveSettles(r) == runs[r].pc = "removeWrite" /\ runs'[r] # runs[r]
RemoveLands(r) == RemoveSettles(r) /\ faults' = faults
FailureSettles(r) == runs[r].pc = "failureWrite" /\ runs'[r] # runs[r]
FailureLands(r) == FailureSettles(r) /\ faults' = faults

\* The step in which handleUploadFailure computes the list it will write.
FailureComputes(r) == runs[r].pc = "failureRead" /\ runs'[r].pc = "failureWrite"

\* What removeByIds is to leave of a list: the events with other ids, in order.
WithoutIds(events, ids) == SelectSeq(events, LAMBDA e : e.id \notin ids)

\* The position of the event with payload d in a list that holds it.
PlaceOf(events, d) == CHOOSE i \in 1..Len(events) : events[i].data = d

\* The events of `after` appear in `before`, in the same relative order.
KeepsOrder(before, after) ==
    /\ DataOf(after) \subseteq DataOf(before)
    /\ \A i, j \in 1..Len(after) :
          i < j => PlaceOf(before, after[i].data) < PlaceOf(before, after[j].data)

(* C1: an event whose saveEvent has written it leaves the persisted list   *)
(* only (a) in the removal that follows a 2xx response to a request whose  *)
(* body contained it, (b) by retry eviction on reaching its maxRetries,    *)
(* (c) by capacity eviction as one of the oldest events beyond the         *)
(* capacity, or (d) by clearQueue.                                         *)
C1_Delivered(d) == \E r \in Runs : RemoveLands(r) /\ d \in DataOf(Batch(r))
C1_RetryEvicted(d) ==
    \E r \in Runs :
        /\ FailureLands(r)
        /\ d \in DataOf(Batch(r))
        /\ LET e == Persisted[PlaceOf(Persisted, d)]
           IN  e.retryCount + 1 >= e.maxRetries
C1_CapacityEvicted(d) ==
    \E p \in Producers :
        /\ SaveLands(p)
        /\ PlaceOf(Persisted, d) <= Len(Persisted) + 1 - Capacity
C1_Cleared == storage' = Null /\ UNCHANGED <<savers, runs>>
C1_AtLeastOnce ==
    [][\A d \in DataOf(Persisted) \ DataOf(Persisted') :
          \/ C1_Delivered(d)
          \/ C1_RetryEvicted(d)
          \/ C1_CapacityEvicted(d)
          \/ C1_Cleared]_vars

(* C2: when saveEvent calls overlap and the queue stays below capacity,    *)
(* then once all of them have completed the store holds every appended     *)
(* event exactly once.                                                     *)
C2_ConcurrentAppends ==
    (/\ \A p \in Producers : savers[p].pc = "idle"
     /\ nextData - 1 <= Capacity)
    => \A d \in 1..(nextData - 1) :
          Cardinality({i \in 1..Len(Persisted) : Persisted[i].data = d}) = 1

(* C3: the store mutations of an upload run are atomic relative to append: *)
(* the write of removeUploadedEvents or handleUploadFailure leaves what    *)
(* the operation makes of the list stored at that moment (an event         *)
(* appended meanwhile stays), and the write of a saveEvent leaves the      *)
(* stored list with the new event appended (a removed event does not       *)
(* reappear, a retry increment or eviction is not undone).                 *)
C3_AtomicStoreMutations ==
    [][/\ \A r \in Runs : RemoveLands(r) =>
              Persisted' = removeUploaded(Persisted, Batch(r))
       /\ \A r \in Runs : FailureLands(r) =>
              Persisted' = handleFailures(Persisted, Batch(r))
       /\ \A p \in Producers : SaveLands(p) =>
              Persisted' = PushAndTrim(Persisted, savers[p].ev)]_vars

(* C4: the persisted list never holds more than the capacity; an append    *)
(* that would exceed it drops exactly the oldest events (the front of the  *)
(* list the append works on) and its write leaves the new event last.      *)
C4_OldestDropped(p) ==
    LET before == getStoredEvents(savers'[p].readOk)
        whole == Append(before, savers[p].ev)
        after == savers'[p].events
    IN  /\ Len(after) = Min(Capacity, Len(whole))
        /\ \A i \in 1..Len(after) : after[i] = whole[Len(whole) - Len(after) + i]
C4_Capacity ==
    /\ [](Len(Persisted) <= Capacity)
    /\ [][\A p \in Producers :
            /\ (savers[p].pc = "read" /\ savers'[p].pc = "write")
                  => C4_OldestDropped(p)
            /\ SaveLands(p) =>
                  /\ Len(Persisted') <= Capacity
                  /\ Persisted'[Len(Persisted')] = savers[p].ev]_vars

\* C4's case: the third append found the list full; the oldest event is gone
\* and the new one is last.
C4_Witness ==
    /\ Len(Persisted) = Capacity
    /\ \A i \in 1..Capacity : Persisted[i].data = i + 1

(* C5: at every instant at most one execution of uploadEvents is past the  *)
(* isUploading guard, also when initialize/configureOfflineQueue runs      *)
(* while an upload run is in flight.                                       *)
C5_SingleFlight == Cardinality({r \in Runs : runs[r].pc # "idle"}) <= 1

(* C6: once the request for a batch of a run has failed, the run sends no  *)
(* request for a later batch: it only updates the store for the failed     *)
(* batch and ends.                                                         *)
C6_OrderPreservingHalt ==
    \A r \in Runs : runs[r].failed => runs[r].pc \in {"failureRead", "failureWrite"}

(* C7: handleUploadFailure, working on the stored list: every event of the *)
(* failed batch that it keeps has retryCount one higher than before, every *)
(* event of the batch whose incremented retryCount equals its maxRetries   *)
(* is absent, and the events left are in their original relative order.    *)
C7_RetryAccounting ==
    [][\A r \in Runs : (FailureComputes(r) /\ runs'[r].readOk) =>
          LET before == Persisted
              after == runs'[r].events
              failed == DataOf(Batch(r))
          IN  /\ KeepsOrder(before, after)
              /\ \A i \in 1..Len(before) :
                    before[i].data \in failed =>
                       /\ before[i].data \in DataOf(after) =>
                             after[PlaceOf(after, before[i].data)] =
                                [before[i] EXCEPT !.retryCount = @ + 1]
                       /\ before[i].retryCount + 1 = before[i].maxRetries =>
                             before[i].data \notin DataOf(after)]_vars

C9_ExactRemoval ==
    [][\A r \in Runs : RemoveLands(r) =>
          Persisted' = WithoutIds(Persisted, IdsOf(Batch(r)))]_vars

(* C10: when the storage read or the storage write of saveEvent,           *)
(* removeUploadedEvents or handleUploadFailure fails, the persisted list   *)
(* after the operation equals the list before it.                          *)
C10_NoPartialState ==
    [][/\ \A p \in Producers :
            (SaveSettles(p) /\ (~savers[p].readOk \/ faults' # faults))
               => Persisted' = Persisted
       /\ \A r \in Runs :
            ((RemoveSettles(r) \/ FailureSettles(r))
                /\ (~runs[r].readOk \/ faults' # faults))
               => Persisted' = Persisted]_vars

(* C11: whatever the storage, the connectivity probe and the network do,   *)
(* the promise of no saveEvent call and of no uploadEvents call rejects,   *)
(* also when the write of handleUploadFailure after a failed batch fails.  *)
C11_NoFailureEscapes == rejected \cap {"saveEvent", "uploadEvents"} = {}

\* C11's case: the setItem of handleUploadFailure threw, the error ended in
\* the catch block of uploadEvents and the run is over.
C11_Witness ==
    /\ caught = "uploadEvents"
    /\ \A r \in Runs : runs[r].pc = "idle"
    /\ ~isUploading
    /\ rejected = {}

(* C12: within one run the requests go out in the order of the batches cut *)
(* from the snapshot: the first when the probe has answered, and the       *)
(* request for batch k+1 in the step in which the store update for batch k *)
(* (removal, or retry and eviction) lands; no other step sends a request.  *)
C12_SequentialDelivery ==
    [][\A r \in Runs :
          (runs'[r].pc = "fetch" /\ runs'[r] # runs[r]) =>
             \/ /\ runs[r].pc = "probe"
                /\ runs'[r].k = 1
                /\ runs'[r].batches =
                      createBatches(runs[r].events, config.batchSize)
             \/ /\ RemoveLands(r) \/ FailureLands(r)
                /\ storage' = <<runs[r].events>>
                /\ runs'[r].k = runs[r].k + 1
                /\ runs'[r].batches = runs[r].batches]_vars

\* C12's case: the first batch was delivered and removed, and the request
\* for the second batch, all that is stored, is outstanding.
C12_Witness ==
    \E r \in Runs :
        /\ runs[r].pc = "fetch"
        /\ runs[r].k = 2
        /\ Persisted = Batch(r)

\* The place of payload d in the order of the saveEvent writes.
LandedAt(d) == CHOOSE i \in 1..Len(landed) : landed[i] = d

(* C13: the stored list is in enqueue order: of two stored events, the one *)
(* nearer the front is the one whose saveEvent write landed first, also    *)
(* after removals and after retry increments.                              *)
C13_StoreOrder ==
    \A i, j \in 1..Len(Persisted) :
        i < j =>
           /\ \E a, b \in 1..Len(landed) :
                 landed[a] = Persisted[i].data /\ landed[b] = Persisted[j].data
           /\ LandedAt(Persisted[i].data) < LandedAt(Persisted[j].data)

\* C13's case: the first of two batches failed; its event was retried and
\* still precedes the event that was written after it.
C13_Witness ==
    /\ Len(Persisted) = 2
    /\ Persisted[1].retryCount = 1
    /\ LandedAt(Persisted[1].data) < LandedAt(Persisted[2].data)
    /\ \E r \in Runs : runs[r].pc = "fetch" /\ runs[r].k = 2

(* C14: a run that finds the store empty sends no request and makes no     *)
(* probe, leaves the store and everything else of the queue as it was and  *)
(* ends with the guard released, so that the next empty flush starts from  *)
(* the same state.                                                         *)
C14_EmptyFlushNoOp ==
    [][\A r \in Runs :
          (runs[r].pc = "read" /\ runs'[r] # runs[r] /\ Persisted = <<>>) =>
             /\ runs'[r] = IdleRun
             /\ isUploading' = FALSE
             /\ UNCHANGED <<storage, config, uploadInterval, orphanTimers,
                            intervals, savers, rejected>>]_vars

\* C14's case: the queue was emptied by a delivery and an uploadEvents has
\* passed the guard and waits for its snapshot.
C14_Witness ==
    /\ storage = <<<<>>>>
    /\ isUploading
    /\ \E r \in Runs : runs[r].pc = "read"

(* C15: a run whose connectivity probe answers "not connected" (or throws) *)
(* sends no request and writes nothing: it ends in that step with the      *)
(* stored list, every retryCount included, as it was; and on the way to    *)
(* the probe the run has not written either.                               *)
C15_OfflineRunUnchanged ==
    [][\A r \in Runs :
          /\ (runs[r].pc = "probe" /\ runs'[r].pc # "fetch" /\ runs'[r] # runs[r]) =>
                /\ runs'[r] = IdleRun
                /\ isUploading' = FALSE
                /\ storage' = storage
          /\ (runs[r].pc = "read" /\ runs'[r] # runs[r]) =>
                /\ storage' = storage
                /\ runs'[r].pc = "probe" => runs'[r].events = Persisted]_vars

\* C15's case: a run holds the snapshot of a store in which an event has
\* already failed once, and waits for the probe.
C15_Witness ==
    \E r \in Runs :
        /\ runs[r].pc = "probe"
        /\ runs[r].events = Persisted
        /\ \E i \in 1..Len(Persisted) : Persisted[i].retryCount = 1

(* C16: a call of uploadEvents that arrives while a run holds the guard is *)
(* not lost: the call has returned at the guard, so when the run in flight *)
(* ends and events are stored, a further run is started in its place.      *)
C16_TriggerNotLost ==
    [][(/\ dropped
        /\ \E r \in Runs : runs[r].pc # "idle" /\ runs'[r].pc = "idle"
        /\ Persisted' # <<>>)
       => \E q \in Runs : runs'[q].pc = "read"]_vars

\* The debounce timeouts that are armed: the one the field refers to and the
\* ones no field refers to.
PendingDebounce == (IF uploadInterval THEN 1 ELSE 0) + orphanTimers

(* C17: every saveEvent that wrote cancels the pending debounce timeout    *)
(* and arms a new one, so at most one debounce timeout is armed at any     *)
(* time and a burst of appends is followed by one debounce-triggered call  *)
(* of uploadEvents.                                                        *)
C17_Debounce == PendingDebounce <= 1

\* The stored event with payload d.
Stored(events, d) == events[PlaceOf(events, d)]

(* C19: an event is written with retryCount 0, every failed attempt that   *)
(* included it takes it one step towards eviction and no step takes it     *)
(* back, so that it is Delivered or Evicted after at most maxRetries       *)
(* failed attempts.                                                        *)
C19_Lifecycle ==
    [][/\ \A p \in Producers :
            SaveLands(p) => Persisted'[Len(Persisted')].retryCount = 0
       /\ \A d \in DataOf(Persisted) \cap DataOf(Persisted') :
            Stored(Persisted', d).retryCount >= Stored(Persisted, d).retryCount
       /\ \A r \in Runs : FailureLands(r) =>
            \A i \in 1..Len(Batch(r)) :
               Batch(r)[i].data \in DataOf(Persisted') =>
                  Stored(Persisted', Batch(r)[i].data).retryCount
                     > Batch(r)[i].retryCount]_vars

(* C20: an event carries the maxRetries that was configured when its       *)
(* saveEvent ran: the record is built with it, written with it and keeps   *)
(* it while it is stored, whatever the queue is reconfigured to; and       *)
(* handleUploadFailure evicts an event against the event's own limit.      *)
C20_MaxRetriesSnapshot ==
    [][/\ \A p \in Producers :
            /\ (savers[p].pc = "idle" /\ savers'[p].pc = "read") =>
                  /\ savers'[p].ev.maxRetries = config'.maxRetries
                  /\ savers'[p].ev.retryCount = 0
            /\ (savers[p].pc # "idle" /\ savers'[p].pc # "idle") =>
                  savers'[p].ev = savers[p].ev
            /\ SaveLands(p) => Persisted'[Len(Persisted')] = savers[p].ev
       /\ \A d \in DataOf(Persisted) \cap DataOf(Persisted') :
            Stored(Persisted', d).maxRetries = Stored(Persisted, d).maxRetries
       /\ \A r \in Runs : (FailureComputes(r) /\ runs'[r].readOk) =>
            \A i \in 1..Len(Persisted) :
               LET e == Persisted[i]
                   after == runs'[r].events
                   hits == Cardinality({j \in 1..Len(Batch(r)) :
                                           Batch(r)[j].id = e.id})
               IN  IF e.data \in DataOf(after)
                   THEN \/ Stored(after, e.data) = e
                        \/ Stored(after, e.data).retryCount < e.maxRetries
                   ELSE e.retryCount + hits >= e.maxRetries]_vars

\* C20's case: the queue was reconfigured to a lower limit after the first
\* event was built; a run took both events, the first batch failed, and the
\* first event is kept with a retryCount that has reached the new limit.
C20_Witness ==
    /\ Len(Persisted) = 2
    /\ Persisted[1].maxRetries = DefaultMaxRetries
    /\ Persisted[1].retryCount >= config.maxRetries
    /\ Persisted[1].retryCount = 1
    /\ Persisted[2].maxRetries = config.maxRetries
    /\ \E r \in Runs :
          /\ runs[r].pc = "fetch" /\ runs[r].k = 2
          /\ runs[r].batches[1][1].data = Persisted[1].data
          /\ runs[r].batches[1][1].retryCount = 0

\* A request whose body holds the event with payload d is outstanding.
InRequest(d) ==
    \E r \in Runs : runs[r].pc = "fetch" /\ d \in DataOf(Batch(r))

(* C18: once startAutoUpload has run, the interval timer alone gets the    *)
(* queue attempted: an event that is stored is, while it stays stored,     *)
(* eventually in the body of a request, without any debounce timeout or    *)
(* further call.                                                           *)
C18_PeriodicTrigger ==
    \A d \in 1..MaxEvents :
        (intervals > 0 /\ d \in DataOf(Persisted))
           ~> (InRequest(d) \/ d \notin DataOf(Persisted))

\* C18's case: the debounce timeout of the last append is still pending and
\* a run that the interval timer started has the request for the second of
\* two stored events outstanding.
C18_Witness ==
    /\ intervals > 0
    /\ uploadInterval
    /\ \E r \in Runs :
          /\ runs[r].pc = "fetch" /\ runs[r].k = 2
          /\ DataOf(Batch(r)) \subseteq DataOf(Persisted)

\* The payloads whose saveEvent write has landed at some time.
EverStored == {landed[a] : a \in 1..Len(landed)}

\* The step in which the removeItem of clearQueue lands: the only step that
\* changes the item and belongs to no saveEvent and to no run.
ClearLands == storage' # storage /\ UNCHANGED <<savers, runs>>

(* C21: when clearQueue has completed the store is empty, and the write    *)
(* that next lands stores no event that was stored before the clear, also  *)
(* when it is the write of a saveEvent or of an upload run that had read   *)
(* the list before the clear.                                              *)
C21_ClearIrreversible ==
    [][/\ ClearLands => Persisted' = <<>>
       /\ (storage = Null /\ storage' # Null) =>
             DataOf(Persisted') \cap EverStored = {}]_vars

\* The lists that a run holds: its snapshot or the list it is about to write,
\* and its batches.
HeldBy(r) ==
    {runs[r].events} \cup {runs[r].batches[k] : k \in 1..Len(runs[r].batches)}

RunStarts == \E r \in Runs : runs[r].pc = "idle" /\ runs'[r].pc = "read"

(* C23: once the SDK has been stopped, no debounce timeout and no interval *)
(* timer starts an upload run (nothing else calls uploadEvents here),      *)
(* while the steps of a run in flight stay possible.                       *)
C23_StopCancelsTimers ==
    [][(\A s \in Sdks : sdks[s].stopped) => ~RunStarts]_vars

(* C24: no two events of the persisted list have the same id, whatever     *)
(* generateEventId returned for the appends that stored them.              *)
C24_IdUniqueness ==
    \A i, j \in 1..Len(Persisted) :
        i # j => Persisted[i].id # Persisted[j].id

\* The batches of a list laid end to end.
RECURSIVE Flatten(_)
Flatten(batches) ==
    IF batches = <<>> THEN <<>> ELSE Head(batches) \o Flatten(Tail(batches))

\* The step in which createBatches returns.
Returns(r) == runs[r].pc = "batching" /\ runs'[r].pc # "batching"

(* C25: for every snapshot and every batchSize >= 1 the batches that       *)
(* createBatches returns, laid end to end, are the snapshot; each has      *)
(* between 1 and batchSize events, each but the last has batchSize events, *)
(* and each event of the snapshot is in exactly one batch.  The batches    *)
(* are the consecutive slices that the upload run takes for them.          *)
C25_BatchPartition ==
    [][\A r \in Runs : (Returns(r) /\ config.batchSize >= 1) =>
          LET snapshot == runs[r].events
              batches == runs[r].batches
              places == {<<b, j>> \in (1..Len(batches)) \X (1..MaxSnapshot) :
                            j <= Len(batches[b])}
          IN  /\ Flatten(batches) = snapshot
              /\ \A b \in 1..Len(batches) :
                    /\ 1 <= Len(batches[b])
                    /\ Len(batches[b]) <= config.batchSize
                    /\ b < Len(batches) => Len(batches[b]) = config.batchSize
              /\ \A n \in 1..Len(snapshot) :
                    Cardinality({pl \in places :
                                    batches[pl[1]][pl[2]] = snapshot[n]}) = 1
              /\ batches = createBatches(snapshot, config.batchSize)
              /\ runs'[r].batches = batches]_vars

\* C25's case: a snapshot of three events was cut with batchSize 2 into a
\* full batch and a last batch of one, and the first request is outstanding.
C25_Witness ==
    \E r \in Runs :
        /\ runs[r].pc = "fetch" /\ runs[r].k = 1
        /\ config.batchSize = 2
        /\ Len(runs[r].batches) = 2
        /\ Len(runs[r].batches[1]) = 2
        /\ Len(runs[r].batches[2]) = 1
        /\ Flatten(runs[r].batches) = Persisted

(* C27: for every batchSize the configuration accepts, 0 and negative ones *)
(* included, the loop of createBatches ends: every pass that stays in the  *)
(* loop has brought i nearer to events.length; and the run that entered    *)
(* the loop ends once its requests and storage operations have settled.    *)
C27_RunTerminates ==
    /\ [][\A r \in Runs :
            (/\ runs[r].pc = "batching" /\ runs'[r].pc = "batching"
             /\ runs'[r] # runs[r]) =>
               Len(runs[r].events) - runs'[r].i
                  < Len(runs[r].events) - runs[r].i]_vars
    /\ \A r \in Runs : (runs[r].pc = "batching") ~> (runs[r].pc = "idle")

\* The step in which a run ends, by whichever exit.
RunEnds(r) == runs[r].pc # "idle" /\ runs'[r].pc = "idle"

(* C26: every run that took the guard releases it when it ends, whether it *)
(* found the store empty, was offline, delivered its last batch, handled a *)
(* failed batch or met a storage error; so while no run is in flight the   *)
(* guard is free and the next call of uploadEvents passes it.              *)
C26_GuardRelease ==
    /\ [][\A r \in Runs :
            /\ RunStarts => isUploading'
            /\ RunEnds(r) =>
                  /\ isUploading' = FALSE
                  /\ runs[r].pc \in
                        {"read", "probe", "removeWrite", "failureWrite"}]_vars
    /\ []((\A r \in Runs : runs[r].pc = "idle") => ~isUploading)

\* C26's case: a run ended on the storage error of its handleUploadFailure,
\* and the next call of uploadEvents has passed the guard.
C26_Witness ==
    /\ caught = "uploadEvents"
    /\ isUploading
    /\ \E r \in Runs : runs[r].pc = "read"

(* C28: however the calls of initialize are repeated or overlap,           *)
(* startAutoUpload runs at most once, so that at most one interval timer   *)
(* of the queue is active.                                                 *)
C28_OnePeriodicTimer == intervals <= 1

====
